---- MODULE Spec2Model ----
(***************************************************************************)
(* Model of generate_html_docs.py: the markdown-to-HTML converter          *)
(* (convert_markdown_to_html), the page template (HTML_TEMPLATE), the      *)
(* landing page (create_index_page) and the orchestrator                   *)
(* (generate_html_docs).                                                   *)
(*                                                                         *)
(* A Python str is a sequence of one-character strings; a character that  *)
(* a TLA+ string cannot hold (the backtick, anything outside ASCII) is one *)
(* element named by its code point ("U+0060", "U+1F680").                  *)
(***************************************************************************)
EXTENDS Integers, Sequences, FiniteSets, TLC

(***************************************************************************)
(* Characters and character classes used by the regular expressions.       *)
(***************************************************************************)
NL == "\n"

\* the backtick
BT == "U+0060"

Digits == {"0", "1", "2", "3", "4", "5", "6", "7", "8", "9"}

\* \w of Python's re module, restricted to ASCII
WordChars ==
  Digits \cup {"_"} \cup
  {"a", "b", "c", "d", "e", "f", "g", "h", "i", "j", "k", "l", "m",
   "n", "o", "p", "q", "r", "s", "t", "u", "v", "w", "x", "y", "z"} \cup
  {"A", "B", "C", "D", "E", "F", "G", "H", "I", "J", "K", "L", "M",
   "N", "O", "P", "Q", "R", "S", "T", "U", "V", "W", "X", "Y", "Z"}

\* what str.strip() removes
Whitespace == {" ", "\t", "\n", "\r"}

\* [\U0001F300-\U0001F9FF]|[☀-⛿]|[✀-➿]: sample members
EmojiChars == {"U+1F680", "U+2600", "U+2705"}

\* [-:\| ] of the table separator row
SeparatorChars == {"-", ":", "|", " "}

(***************************************************************************)
(* String primitives.                                                      *)
(***************************************************************************)
Min(S) == CHOOSE x \in S : \A y \in S : x <= y

Max(S) == CHOOSE x \in S : \A y \in S : x >= y

\* s[i:] of Python, 1-based
From(s, i) == SubSeq(s, i, Len(s))

\* does pat occur in s at position i
MatchAt(s, pat, i) ==
  /\ i >= 1
  /\ i + Len(pat) - 1 <= Len(s)
  /\ \A k \in 1..Len(pat) : s[i + k - 1] = pat[k]

\* str.startswith
StartsWith(s, pat) == MatchAt(s, pat, 1)

\* least position >= i where pat occurs, 0 if none
FirstAt(s, pat, i) ==
  LET js == {j \in i..(Len(s) - Len(pat) + 1) : MatchAt(s, pat, j)}
  IN  IF js = {} THEN 0 ELSE Min(js)

\* greatest position where pat occurs, 0 if none
LastAt(s, pat) ==
  LET js == {j \in 1..(Len(s) - Len(pat) + 1) : MatchAt(s, pat, j)}
  IN  IF js = {} THEN 0 ELSE Max(js)

\* substring test ('pat in s')
Contains(s, pat) == FirstAt(s, pat, 1) # 0

\* least position >= i holding character c, 0 if none
FirstChar(s, c, i) ==
  LET js == {j \in i..Len(s) : s[j] = c}
  IN  IF js = {} THEN 0 ELSE Min(js)

\* str.split(sep) for a one-character separator
RECURSIVE Split(_, _)
Split(s, sep) ==
  LET i == FirstChar(s, sep, 1)
  IN  IF i = 0 THEN <<s>>
      ELSE <<SubSeq(s, 1, i - 1)>> \o Split(From(s, i + 1), sep)

\* sep.join(parts) for a one-character separator
RECURSIVE Join(_, _)
Join(parts, sep) ==
  IF Len(parts) = 0 THEN <<>>
  ELSE IF Len(parts) = 1 THEN parts[1]
  ELSE parts[1] \o <<sep>> \o Join(Tail(parts), sep)

\* str.strip()
Strip(s) ==
  LET keep == {j \in 1..Len(s) : s[j] \notin Whitespace}
  IN  IF keep = {} THEN <<>> ELSE SubSeq(s, Min(keep), Max(keep))

\* concatenation of a sequence of strings
RECURSIVE Concat(_)
Concat(parts) ==
  IF Len(parts) = 0 THEN <<>> ELSE parts[1] \o Concat(Tail(parts))

\* str.replace(old, new)
RECURSIVE Replace(_, _, _)
Replace(s, old, new) ==
  LET i == FirstAt(s, old, 1)
  IN  IF i = 0 THEN s
      ELSE SubSeq(s, 1, i - 1) \o new \o Replace(From(s, i + Len(old)), old, new)

(***************************************************************************)
(* Markup literals.                                                        *)
(***************************************************************************)
Open(name) == <<"<">> \o name \o <<">">>

Close(name) == <<"<", "/">> \o name \o <<">">>

Wrap(name, body) == Open(name) \o body \o Close(name)

H(n) == <<"h", n>>
P == <<"p">>
LI == <<"l", "i">>
UL == <<"u", "l">>
OL == <<"o", "l">>
PRE == <<"p", "r", "e">>
CODE == <<"c", "o", "d", "e">>
STRONG == <<"s", "t", "r", "o", "n", "g">>
EM == <<"e", "m">>
HR == <<"h", "r">>
TABLE == <<"t", "a", "b", "l", "e">>
TR == <<"t", "r">>
TH == <<"t", "h">>
TD == <<"t", "d">>

Fence == <<BT, BT, BT>>

\* <a href="url">text</a>
Anchor(url, text) ==
  <<"<", "a", " ", "h", "r", "e", "f", "=", "\"">> \o url \o <<"\"", ">">>
    \o text \o Close(<<"a">>)

\* <span class="emoji">c</span>
EmojiSpan(c) ==
  <<"<", "s", "p", "a", "n", " ", "c", "l", "a", "s", "s", "=", "\"",
    "e", "m", "o", "j", "i", "\"", ">", c>> \o Close(<<"s", "p", "a", "n">>)

(***************************************************************************)
(* re.sub with a ^...$ pattern under re.MULTILINE whose body cannot match  *)
(* a newline: the substitution acts on each line separately.               *)
(***************************************************************************)
Lines(s) == Split(s, NL)

Unlines(lines) == Join(lines, NL)

(***************************************************************************)
(* The passes of convert_markdown_to_html, in the order of the source.     *)
(* Each scanning pass follows re.sub: leftmost match first, the scan       *)
(* resumes after the match, replaced text is not rescanned.                *)
(***************************************************************************)

\* ^#{n} (.+)$ -> <hn>\1</hn>, for one line
HeaderLine(n, digit, line) ==
  LET prefix == [k \in 1..n |-> "#"] \o <<" ">>
  IN  IF StartsWith(line, prefix) /\ Len(line) > Len(prefix)
      THEN Wrap(H(digit), From(line, Len(prefix) + 1))
      ELSE line

\* ^#{n} (.+)$ -> <hn>\1</hn>, re.MULTILINE
HeaderPass(n, digit, html) ==
  LET lines == Lines(html)
  IN  Unlines([k \in 1..Len(lines) |-> HeaderLine(n, digit, lines[k])])

Headers(html) ==
  HeaderPass(4, "4", HeaderPass(3, "3", HeaderPass(2, "2",
    HeaderPass(1, "1", html))))

\* least position >= i that does not hold a \w character (Len(s)+1 if none)
WordEnd(s, i) ==
  Min({j \in i..(Len(s) + 1) : j = Len(s) + 1 \/ s[j] \notin WordChars})

\* ```(\w+)?\n(.*?)``` tried at position i: the position of the closing
\* fence, 0 if the pattern does not match there
CodeBlockEnd(s, i) ==
  LET w == IF MatchAt(s, Fence, i) THEN WordEnd(s, i + 3) ELSE 0
  IN  IF w # 0 /\ w <= Len(s) /\ s[w] = NL
      THEN FirstAt(s, Fence, w + 1) ELSE 0

\* ```(\w+)?\n(.*?)``` -> <pre><code>\2</code></pre>, re.DOTALL
RECURSIVE CodeBlocksFrom(_, _)
CodeBlocksFrom(s, i) ==
  LET ms == {j \in i..Len(s) : CodeBlockEnd(s, j) # 0}
  IN  IF ms = {} THEN From(s, i)
      ELSE LET m == Min(ms)
               q == CodeBlockEnd(s, m)
           IN  SubSeq(s, i, m - 1) \o Open(PRE) \o Open(CODE)
                 \o SubSeq(s, WordEnd(s, m + 3) + 1, q - 1)
                 \o Close(CODE) \o Close(PRE) \o CodeBlocksFrom(s, q + 3)

CodeBlocks(html) == CodeBlocksFrom(html, 1)

\* `([^`]+)` tried at position i: the position of the closing backtick,
\* 0 if the pattern does not match there
InlineCodeEnd(s, i) ==
  LET q == IF s[i] = BT THEN FirstChar(s, BT, i + 1) ELSE 0
  IN  IF q > i + 1 THEN q ELSE 0

\* `([^`]+)` -> <code>\1</code>
RECURSIVE InlineCodeFrom(_, _)
InlineCodeFrom(s, i) ==
  LET ms == {j \in i..Len(s) : InlineCodeEnd(s, j) # 0}
  IN  IF ms = {} THEN From(s, i)
      ELSE LET m == Min(ms)
               q == InlineCodeEnd(s, m)
           IN  SubSeq(s, i, m - 1) \o Wrap(CODE, SubSeq(s, m + 1, q - 1))
                 \o InlineCodeFrom(s, q + 1)

InlineCode(html) == InlineCodeFrom(html, 1)

\* no newline in s[a..b]: what '.' may match
NoNewline(s, a, b) == \A k \in a..b : s[k] # NL

\* \*\*(.+?)\*\* tried at position i: the position of the closing pair,
\* 0 if the pattern does not match there
BoldEnd(s, i) ==
  LET stars == <<"*", "*">>
      q == IF MatchAt(s, stars, i) THEN FirstAt(s, stars, i + 3) ELSE 0
  IN  IF q # 0 /\ NoNewline(s, i + 2, q - 1) THEN q ELSE 0

\* \*\*(.+?)\*\* -> <strong>\1</strong>
RECURSIVE BoldFrom(_, _)
BoldFrom(s, i) ==
  LET ms == {j \in i..Len(s) : BoldEnd(s, j) # 0}
  IN  IF ms = {} THEN From(s, i)
      ELSE LET m == Min(ms)
               q == BoldEnd(s, m)
           IN  SubSeq(s, i, m - 1) \o Wrap(STRONG, SubSeq(s, m + 2, q - 1))
                 \o BoldFrom(s, q + 2)

Bold(html) == BoldFrom(html, 1)

\* \*(.+?)\* tried at position i: the position of the closing asterisk,
\* 0 if the pattern does not match there
ItalicEnd(s, i) ==
  LET q == IF s[i] = "*" THEN FirstChar(s, "*", i + 2) ELSE 0
  IN  IF q # 0 /\ NoNewline(s, i + 1, q - 1) THEN q ELSE 0

\* \*(.+?)\* -> <em>\1</em>
RECURSIVE ItalicFrom(_, _)
ItalicFrom(s, i) ==
  LET ms == {j \in i..Len(s) : ItalicEnd(s, j) # 0}
  IN  IF ms = {} THEN From(s, i)
      ELSE LET m == Min(ms)
               q == ItalicEnd(s, m)
           IN  SubSeq(s, i, m - 1) \o Wrap(EM, SubSeq(s, m + 1, q - 1))
                 \o ItalicFrom(s, q + 1)

Italic(html) == ItalicFrom(html, 1)

\* \[([^\]]+)\] tried at position i: the position of the closing bracket
\* when it is followed by '(', 0 otherwise
LinkTextEnd(s, i) ==
  LET q == IF s[i] = "[" THEN FirstChar(s, "]", i + 1) ELSE 0
  IN  IF q > i + 1 /\ q + 1 <= Len(s) /\ s[q + 1] = "(" THEN q ELSE 0

\* \[([^\]]+)\]\(([^\)]+)\) tried at position i: the position of the
\* closing parenthesis, 0 if the pattern does not match there
LinkEnd(s, i) ==
  LET q == LinkTextEnd(s, i)
      r == IF q # 0 THEN FirstChar(s, ")", q + 2) ELSE 0
  IN  IF r > q + 2 THEN r ELSE 0

\* \[([^\]]+)\]\(([^\)]+)\) -> <a href="\2">\1</a>
RECURSIVE LinksFrom(_, _)
LinksFrom(s, i) ==
  LET ms == {j \in i..Len(s) : LinkEnd(s, j) # 0}
  IN  IF ms = {} THEN From(s, i)
      ELSE LET m == Min(ms)
               q == LinkTextEnd(s, m)
               r == LinkEnd(s, m)
           IN  SubSeq(s, i, m - 1)
                 \o Anchor(SubSeq(s, q + 2, r - 1), SubSeq(s, m + 1, q - 1))
                 \o LinksFrom(s, r + 1)

Links(html) == LinksFrom(html, 1)

\* ^---+$ -> <hr>, for one line
RuleLine(line) ==
  IF Len(line) >= 3 /\ \A k \in 1..Len(line) : line[k] = "-"
  THEN Open(HR) ELSE line

HorizontalRules(html) ==
  LET lines == Lines(html)
  IN  Unlines([k \in 1..Len(lines) |-> RuleLine(lines[k])])

\* ^\- (.+)$ -> <li>\1</li>, for one line
ListLine(line) ==
  IF StartsWith(line, <<"-", " ">>) /\ Len(line) > 2
  THEN Wrap(LI, From(line, 3)) ELSE line

\* a list wrap that stops at the first </li> (a non-greedy .*?)
ListWrapFirst(html) ==
  LET p == FirstAt(html, Open(LI), 1)
      e == IF p # 0 THEN FirstAt(html, Close(LI), p + 4) ELSE 0
  IN  IF e # 0
      THEN SubSeq(html, 1, p - 1) \o Open(UL) \o SubSeq(html, p, e + 4)
             \o Close(UL) \o From(html, e + 5)
      ELSE html

\* (<li>.*</li>) -> <ul>\1</ul>, re.DOTALL: greedy, first <li> to last </li>
ListWrap(html) ==
  LET p == FirstAt(html, Open(LI), 1)
      e == LastAt(html, Close(LI))
  IN  IF p # 0 /\ e >= p + 4
      THEN SubSeq(html, 1, p - 1) \o Open(UL) \o SubSeq(html, p, e + 4)
             \o Close(UL) \o From(html, e + 5)
      ELSE html

\* ^\- (.+)$ -> <li>\1</li>, re.MULTILINE
ListItems(html) ==
  LET lines == Lines(html)
  IN  Unlines([k \in 1..Len(lines) |-> ListLine(lines[k])])

Lists(html) == ListWrap(ListItems(html))

\* ^\d+\. (.+)$ -> <li>\1</li>, for one line
NumberedLine(line) ==
  LET d == Min({j \in 1..(Len(line) + 1) :
                  j = Len(line) + 1 \/ line[j] \notin Digits})
  IN  IF d > 1 /\ MatchAt(line, <<".", " ">>, d) /\ Len(line) > d + 1
      THEN Wrap(LI, From(line, d + 2)) ELSE line

NumberedLists(html) ==
  LET lines == Lines(html)
  IN  Unlines([k \in 1..Len(lines) |-> NumberedLine(lines[k])])

\* line.split('|')[1:-1], each cell stripped
Cells(line) ==
  LET parts == Split(line, "|")
  IN  [k \in 1..(Len(parts) - 2) |-> Strip(parts[k + 1])]

\* <tr><tag>c</tag>...</tr>\n for the cells of one line
TableRow(tag, line) ==
  LET cells == Cells(line)
  IN  Open(TR) \o Concat([k \in 1..Len(cells) |-> Wrap(tag, cells[k])])
        \o Close(TR) \o <<NL>>

\* the replacement function of the table pass; match is match.group(0)
convert_table(match) ==
  LET lines == Split(match, NL)
  IN  IF Len(lines) < 3 THEN match
      ELSE Open(TABLE) \o <<NL>> \o TableRow(TH, lines[1])
             \o Concat([k \in 1..(Len(lines) - 2) |->
                          IF Strip(lines[k + 2]) # <<>>
                          THEN TableRow(TD, lines[k + 2]) ELSE <<>>])
             \o Close(TABLE)

\* \|[^\n]+\|\n at position a: the position of its newline, 0 if no match
PipeRowEnd(s, a) ==
  LET n == IF a <= Len(s) /\ s[a] = "|" THEN FirstChar(s, NL, a) ELSE 0
  IN  IF n >= a + 3 /\ s[n - 1] = "|" THEN n ELSE 0

\* \|[-:\| ]+\|\n at position a: the position of its newline, 0 if no match
SeparatorRowEnd(s, a) ==
  LET n == PipeRowEnd(s, a)
  IN  IF n # 0 /\ \A k \in a..(n - 1) : s[k] \in SeparatorChars THEN n ELSE 0

\* (\|[^\n]+\|\n)+ at position a, greedy: the position of the last newline
RECURSIVE DataRowsEnd(_, _)
DataRowsEnd(s, a) ==
  LET n == PipeRowEnd(s, a)
  IN  IF n = 0 THEN 0
      ELSE LET m == DataRowsEnd(s, n + 1) IN IF m = 0 THEN n ELSE m

\* \|[^\n]+\|\n\|[-:\| ]+\|\n(\|[^\n]+\|\n)+ tried at position i: the
\* position of the newline that ends the match, 0 if it does not match there
TableEnd(s, i) ==
  LET n1 == PipeRowEnd(s, i)
      n2 == IF n1 # 0 THEN SeparatorRowEnd(s, n1 + 1) ELSE 0
  IN  IF n2 # 0 THEN DataRowsEnd(s, n2 + 1) ELSE 0

\* \|[^\n]+\|\n\|[-:\| ]+\|\n(\|[^\n]+\|\n)+ -> convert_table
RECURSIVE TablesFrom(_, _)
TablesFrom(s, i) ==
  LET ms == {j \in i..Len(s) : TableEnd(s, j) # 0}
  IN  IF ms = {} THEN From(s, i)
      ELSE LET m == Min(ms)
               e == TableEnd(s, m)
           IN  SubSeq(s, i, m - 1) \o convert_table(SubSeq(s, m, e))
                 \o TablesFrom(s, e + 1)

Tables(html) == TablesFrom(html, 1)

\* the prefixes that set and clear in_block
BlockOpeners ==
  {<<"<", "h">>, Open(PRE), Open(UL), Open(OL), Open(TABLE), Open(HR), Open(LI)}

BlockClosers == {Close(PRE), Close(UL), Close(OL), Close(TABLE)}

StartsWithAny(s, prefixes) == \E pre \in prefixes : StartsWith(s, pre)

\* a flag that a closing tag does not clear
NextInBlockSticky(in_block, line) ==
  LET stripped == Strip(line)
  IN  IF StartsWithAny(stripped, BlockOpeners) THEN TRUE ELSE in_block

\* the value of in_block after a line
NextInBlock(in_block, line) ==
  LET stripped == Strip(line)
  IN  IF StartsWithAny(stripped, BlockOpeners) THEN TRUE
      ELSE IF StartsWithAny(stripped, BlockClosers) THEN FALSE
      ELSE in_block

\* a paragraph step without the test for a leading '<'
ParagraphLineNoTagCheck(in_block, line) ==
  LET stripped == Strip(line)
  IN  IF StartsWithAny(stripped, BlockOpeners) THEN line
      ELSE IF StartsWithAny(stripped, BlockClosers) THEN line
      ELSE IF stripped = <<>> THEN line
      ELSE IF ~in_block THEN Wrap(P, line)
      ELSE line

\* what the loop appends to result for a line
ParagraphLine(in_block, line) ==
  LET stripped == Strip(line)
  IN  IF StartsWithAny(stripped, BlockOpeners) THEN line
      ELSE IF StartsWithAny(stripped, BlockClosers) THEN line
      ELSE IF stripped = <<>> THEN line
      ELSE IF ~in_block /\ stripped # <<>> /\ ~StartsWith(stripped, <<"<">>)
           THEN Wrap(P, line)
      ELSE line

\* the loop over lines, from line k on, with the flag as it stands
RECURSIVE ParagraphLoop(_, _, _)
ParagraphLoop(lines, k, in_block) ==
  IF k > Len(lines) THEN <<>>
  ELSE <<ParagraphLine(in_block, lines[k])>>
         \o ParagraphLoop(lines, k + 1, NextInBlock(in_block, lines[k]))

Paragraphs(html) == Join(ParagraphLoop(Split(html, NL), 1, FALSE), NL)

\* every emoji character -> <span class="emoji">\1</span>
RECURSIVE EmojisFrom(_, _)
EmojisFrom(s, i) ==
  LET ms == {j \in i..Len(s) : s[j] \in EmojiChars}
  IN  IF ms = {} THEN From(s, i)
      ELSE LET m == Min(ms)
           IN  SubSeq(s, i, m - 1) \o EmojiSpan(s[m]) \o EmojisFrom(s, m + 1)

Emojis(html) == EmojisFrom(html, 1)

convert_markdown_to_html(markdown_text) ==
  Emojis(Paragraphs(Tables(NumberedLists(Lists(HorizontalRules(Links(
    Italic(Bold(InlineCode(CodeBlocks(Headers(markdown_text))))))))))))

(***************************************************************************)
(* File names and the page template.                                       *)
(***************************************************************************)
README ==
  <<"R", "E", "A", "D", "M", "E">>

QUICK_START ==
  <<"Q", "U", "I", "C", "K", "_", "S", "T", "A", "R", "T">>

API_REFERENCE ==
  <<"A", "P", "I", "_", "R", "E", "F", "E", "R", "E", "N", "C", "E">>

COMPLETE_LIBRARY_REPORT ==
  <<"C", "O", "M", "P", "L", "E", "T", "E", "_", "L", "I", "B", "R", "A",
    "R", "Y", "_", "R", "E", "P", "O", "R", "T">>

COMPLETENESS_REPORT ==
  <<"_", "C", "O", "M", "P", "L", "E", "T", "E", "N", "E", "S", "S", "_",
    "R", "E", "P", "O", "R", "T">>

TIER1_COMPLETENESS_REPORT == <<"T", "I", "E", "R", "1">> \o COMPLETENESS_REPORT

TIER2_COMPLETENESS_REPORT == <<"T", "I", "E", "R", "2">> \o COMPLETENESS_REPORT

TIER3_COMPLETENESS_REPORT == <<"T", "I", "E", "R", "3">> \o COMPLETENESS_REPORT

ACHIEVEMENT_SUMMARY ==
  <<"A", "C", "H", "I", "E", "V", "E", "M", "E", "N", "T", "_", "S", "U",
    "M", "M", "A", "R", "Y">>

DotMd == <<".", "m", "d">>

DotHtml == <<".", "h", "t", "m", "l">>

IndexHtml == <<"i", "n", "d", "e", "x">> \o DotHtml

\* the list md_files of generate_html_docs
md_files ==
  <<README \o DotMd, QUICK_START \o DotMd, API_REFERENCE \o DotMd,
    COMPLETE_LIBRARY_REPORT \o DotMd, TIER1_COMPLETENESS_REPORT \o DotMd,
    TIER2_COMPLETENESS_REPORT \o DotMd, TIER3_COMPLETENESS_REPORT \o DotMd,
    ACHIEVEMENT_SUMMARY \o DotMd>>

\* the value 'active' of a navigation flag; '' is <<>>
Active == <<"a", "c", "t", "i", "v", "e">>

\* the sidebar of HTML_TEMPLATE: the href and the flag of each entry
NavEntries ==
  <<<<IndexHtml, "active_index">>,
    <<README \o DotHtml, "active_readme">>,
    <<QUICK_START \o DotHtml, "active_quick">>,
    <<API_REFERENCE \o DotHtml, "active_api">>,
    <<COMPLETE_LIBRARY_REPORT \o DotHtml, "active_complete">>,
    <<TIER1_COMPLETENESS_REPORT \o DotHtml, "active_tier1">>,
    <<TIER2_COMPLETENESS_REPORT \o DotHtml, "active_tier2">>,
    <<TIER3_COMPLETENESS_REPORT \o DotHtml, "active_tier3">>,
    <<ACHIEVEMENT_SUMMARY \o DotHtml, "active_achievement">>>>

\* the keyword arguments HTML_TEMPLATE.format requires besides title, content
FlagNames == {NavEntries[k][2] : k \in 1..Len(NavEntries)}

\* <li><a href="href" class="flag"></a></li>\n (the label is left out)
NavItem(href, flag) ==
  <<"<", "l", "i", ">", "<", "a", " ", "h", "r", "e", "f", "=", "\"">>
    \o href \o <<"\"", " ", "c", "l", "a", "s", "s", "=", "\"">> \o flag
    \o <<"\"", ">", "<", "/", "a", ">", "<", "/", "l", "i", ">", "\n">>

\* HTML_TEMPLATE.format(title=..., content=..., **active_flags): the title
\* element, the sidebar and the main element; the style sheet, the banner
\* and the labels, which hold no placeholder, are left out
HTML_TEMPLATE(title, content, active_flags) ==
  <<"<", "t", "i", "t", "l", "e", ">">> \o title
    \o <<" ", "-", " ", "F", "P", "-", "A", "S", "M", " ", "L", "i", "b", "r",
         "a", "r", "y", "<", "/", "t", "i", "t", "l", "e", ">", "\n">>
    \o Concat([k \in 1..Len(NavEntries) |->
                 NavItem(NavEntries[k][1], active_flags[NavEntries[k][2]])])
    \o <<"<", "m", "a", "i", "n", " ", "c", "l", "a", "s", "s", "=", "\"", "c",
         "o", "n", "t", "e", "n", "t", "\"", ">", "\n">>
    \o content \o <<"\n", "<", "/", "m", "a", "i", "n", ">", "\n">>

\* create_index_page(): the heading and the links of the static content
create_index_page ==
  <<"\n">> \o Wrap(H("1"), <<"W", "e", "l", "c", "o", "m", "e">>) \o <<"\n">>
    \o Concat([k \in 1..(Len(NavEntries) - 1) |->
                 Anchor(NavEntries[k + 1][1], <<>>) \o <<"\n">>])

(***************************************************************************)
(* The steps of the loop body of generate_html_docs.                       *)
(***************************************************************************)

\* a chain whose TIER2 branch sets the TIER1 flag
ActiveChainCopyPaste ==
  <<<<README \o DotMd, "active_readme">>,
    <<QUICK_START \o DotMd, "active_quick">>,
    <<API_REFERENCE \o DotMd, "active_api">>,
    <<COMPLETE_LIBRARY_REPORT \o DotMd, "active_complete">>,
    <<TIER1_COMPLETENESS_REPORT \o DotMd, "active_tier1">>,
    <<TIER2_COMPLETENESS_REPORT \o DotMd, "active_tier1">>,
    <<TIER3_COMPLETENESS_REPORT \o DotMd, "active_tier3">>,
    <<ACHIEVEMENT_SUMMARY \o DotMd, "active_achievement">>>>

\* the branch of the if/elif chain that md_file takes: file name, flag set
ActiveChain ==
  <<<<README \o DotMd, "active_readme">>,
    <<QUICK_START \o DotMd, "active_quick">>,
    <<API_REFERENCE \o DotMd, "active_api">>,
    <<COMPLETE_LIBRARY_REPORT \o DotMd, "active_complete">>,
    <<TIER1_COMPLETENESS_REPORT \o DotMd, "active_tier1">>,
    <<TIER2_COMPLETENESS_REPORT \o DotMd, "active_tier2">>,
    <<TIER3_COMPLETENESS_REPORT \o DotMd, "active_tier3">>,
    <<ACHIEVEMENT_SUMMARY \o DotMd, "active_achievement">>>>

\* the dict active_flags after the if/elif chain
ActiveFlags(md_file) ==
  [f \in {"active_index", "active_readme", "active_quick", "active_api",
          "active_complete", "active_tier1", "active_tier2", "active_tier3",
          "active_achievement"} |->
     IF \E k \in 1..Len(ActiveChain) : ActiveChain[k] = <<md_file, f>>
     THEN Active ELSE <<>>]

\* the keyword arguments of the index page
IndexFlags ==
  [active_index |-> Active, active_readme |-> <<>>, active_quick |-> <<>>,
   active_api |-> <<>>, active_complete |-> <<>>, active_tier1 |-> <<>>,
   active_tier2 |-> <<>>, active_tier3 |-> <<>>, active_achievement |-> <<>>]

\* <h1>(.+?)</h1> tried at position i: the position of </h1>, 0 if no match
TitleEnd(s, i) ==
  LET q == IF MatchAt(s, Open(H("1")), i)
           THEN FirstAt(s, Close(H("1")), i + 5) ELSE 0
  IN  IF q # 0 /\ NoNewline(s, i + 4, q - 1) THEN q ELSE 0

\* <[^>]+> tried at position i: the position of '>', 0 if no match
TagEnd(s, i) ==
  LET q == IF s[i] = "<" THEN FirstChar(s, ">", i + 1) ELSE 0
  IN  IF q > i + 1 THEN q ELSE 0

\* re.sub(r'<[^>]+>', '', title)
RECURSIVE StripTagsFrom(_, _)
StripTagsFrom(s, i) ==
  LET ms == {j \in i..Len(s) : TagEnd(s, j) # 0}
  IN  IF ms = {} THEN From(s, i)
      ELSE LET m == Min(ms)
           IN  SubSeq(s, i, m - 1) \o StripTagsFrom(s, TagEnd(s, m) + 1)

\* the title of a page: the first h1 of html_content without its tags,
\* or "FP-ASM"
Title(html_content) ==
  LET ms == {j \in 1..Len(html_content) : TitleEnd(html_content, j) # 0}
  IN  IF ms = {} THEN <<"F", "P", "-", "A", "S", "M">>
      ELSE LET m == Min(ms)
           IN  StripTagsFrom(SubSeq(html_content, m + 4,
                                    TitleEnd(html_content, m) - 1), 1)

\* a fix-up that rewrites nothing
FixLinksNone(final_html) == final_html

\* final_html.replace('.md"', '.html"')
FixLinks(final_html) ==
  Replace(final_html, DotMd \o <<"\"">>, DotHtml \o <<"\"">>)

\* a with_suffix that keeps the old suffix
with_suffix_keep(name, suffix) == name \o suffix

\* md_path.with_suffix('.html').name
with_suffix(name, suffix) ==
  LET dot == LastAt(name, <<".">>)
  IN  IF dot > 1 /\ dot < Len(name)
      THEN SubSeq(name, 1, dot - 1) \o suffix ELSE name \o suffix

\* the document written for md_file whose text is markdown_content
FinalHtml(md_file, markdown_content) ==
  LET html_content == convert_markdown_to_html(markdown_content)
  IN  FixLinks(HTML_TEMPLATE(Title(html_content), html_content,
                             ActiveFlags(md_file)))

\* the document written as index.html
IndexPage == HTML_TEMPLATE(<<"H", "o", "m", "e">>, create_index_page, IndexFlags)

(***************************************************************************)
(* Bounded inputs.                                                         *)
(***************************************************************************)

\* the lines a markdown document is made of
LineKinds ==
  {<<"#", " ", "T">>,
   <<>>,
   <<"H", " ", "*", "*", "w", "*", "*", ".">>,
   <<"-", " ", "a">>,
   <<"-", " ", "b">>,
   <<"-", " ", "c">>,
   Fence,
   Fence \o <<"p", "y">>,
   <<BT, "c", BT, " ", "*", "i", "*", " ", "[", "a", "]", "(", "u", ")">>,
   <<"|", " ", "c", " ", "|", "d", "|">>,
   <<"|", "-", "|", "-", "|">>,
   <<"1", ".", " ", "a">>,
   Close(UL),
   <<"U+2600">>}

\* the number of lines of a document
MaxLines == 3

\* the documents given to the converter: up to MaxLines lines, with or
\* without a newline after the last line
Documents ==
  {Join(ls, NL) \o tail :
     ls \in UNION {[1..n -> LineKinds] : n \in 1..MaxLines},
     tail \in {<<>>, <<NL>>}}

\* the characters of a link's text and url
LinkChars == {"a", ".", "*", "]", BT, "U+1F680"}

\* the length of a link's text and of its url
MaxLinkLen == 2

LinkParts == UNION {[1..n -> LinkChars] : n \in 1..MaxLinkLen}

\* the markdown link [text](url)
Link(text, url) == <<"[">> \o text \o <<"]", "(">> \o url \o <<")">>

LinkInputs == {Link(text, url) : text \in LinkParts, url \in LinkParts}

\* the contents a configured markdown file may have
FileDocs ==
  {<<"#", " ", "*", "T", "*", "\n", "[", "a", "]", "(", "F", ".", "m", "d", ")">>,
   <<"s", "e", "e", " ", "[", "b", "]", "(", "G", ".", "m", "d", ")">>}

(***************************************************************************)
(* State.                                                                  *)
(***************************************************************************)
VARIABLES
  disk,           \* the markdown files of the working directory: name -> text
  dir_exists,     \* whether docs_html exists
  docs_html,      \* the files of docs_html: name -> text
  writes,         \* the names written into docs_html, in order
  stdout,         \* the lines printed, in order
  pc,             \* where generate_html_docs stands
  i,              \* the position of the for loop in md_files
  converted,      \* the counter converted
  markdown_text,  \* the argument of a call of convert_markdown_to_html
  html,           \* what the call returned
  html2,          \* what the call on that result returned
  conv_pc         \* where the caller of the converter stands

vars == <<disk, dir_exists, docs_html, writes, stdout, pc, i, converted,
          markdown_text, html, html2, conv_pc>>

orch_vars == <<disk, dir_exists, docs_html, writes, stdout, pc, i, converted>>

conv_vars == <<markdown_text, html, html2, conv_pc>>

\* the dict d with d[k] = v
Put(d, k, v) == [x \in DOMAIN d \cup {k} |-> IF x = k THEN v ELSE d[x]]

MdFileSet == {md_files[k] : k \in 1..Len(md_files)}

(***************************************************************************)
(* generate_html_docs.                                                     *)
(***************************************************************************)
OrchInit ==
  /\ \E present \in SUBSET MdFileSet : disk \in [present -> FileDocs]
  /\ dir_exists \in BOOLEAN
  /\ docs_html = <<>>
  /\ writes = <<>>
  /\ stdout = <<>>
  /\ pc = "start"
  /\ i = 0
  /\ converted = 0

ConvIdle ==
  /\ markdown_text = <<>>
  /\ html = <<>>
  /\ html2 = <<>>
  /\ conv_pc = "idle"

Init == OrchInit /\ ConvIdle

\* output_dir.mkdir(exist_ok=True); converted = 0; the loop begins
MakeOutputDir ==
  /\ pc = "start"
  /\ dir_exists' = TRUE
  /\ stdout' = Append(stdout, <<"Created output directory">>)
  /\ converted' = 0
  /\ i' = 1
  /\ pc' = "loop"
  /\ UNCHANGED <<disk, docs_html, writes, conv_vars>>

\* a skip that counts the missing file as converted
SkipMissingCounted ==
  /\ pc = "loop"
  /\ i <= Len(md_files)
  /\ md_files[i] \notin DOMAIN disk
  /\ stdout' = Append(stdout, <<"Skipping", md_files[i]>>)
  /\ i' = i + 1
  /\ converted' = converted + 1
  /\ UNCHANGED <<disk, dir_exists, docs_html, writes, pc, conv_vars>>

\* an iteration whose md_path does not exist: warn and continue
SkipMissing ==
  /\ pc = "loop"
  /\ i <= Len(md_files)
  /\ md_files[i] \notin DOMAIN disk
  /\ stdout' = Append(stdout, <<"Skipping", md_files[i]>>)
  /\ i' = i + 1
  /\ UNCHANGED <<disk, dir_exists, docs_html, writes, pc, converted, conv_vars>>

\* an iteration whose md_path exists: read, convert, render, fix, write
ConvertFile ==
  /\ pc = "loop"
  /\ i <= Len(md_files)
  /\ md_files[i] \in DOMAIN disk
  /\ LET md_file == md_files[i]
         html_path == with_suffix(md_file, DotHtml)
     IN  /\ docs_html' = Put(docs_html, html_path, FinalHtml(md_file, disk[md_file]))
         /\ writes' = Append(writes, html_path)
         /\ stdout' = stdout \o <<<<"Converting", md_file>>, <<"OK", html_path>>>>
  /\ converted' = converted + 1
  /\ i' = i + 1
  /\ UNCHANGED <<disk, dir_exists, pc, conv_vars>>

\* after the loop: write index.html and print the summary
CreateIndex ==
  /\ pc = "loop"
  /\ i > Len(md_files)
  /\ docs_html' = Put(docs_html, IndexHtml, IndexPage)
  /\ writes' = Append(writes, IndexHtml)
  /\ stdout' = stdout \o <<<<"Creating", IndexHtml>>, <<"Generated", converted + 1>>>>
  /\ pc' = "done"
  /\ UNCHANGED <<disk, dir_exists, i, converted, conv_vars>>

\* what a file opened with mode 'w' may hold when writing it fails: open
\* has truncated it, and a part of the text may have reached it (the
\* empty file and the first half stand for the possible parts)
PartialWrites(final_html) ==
  {SubSeq(final_html, 1, n) : n \in {0, Len(final_html) \div 2}}

\* an iteration whose open(md_path, 'r') or f.read() raises: nothing
\* catches the exception, the run ends with a traceback
ReadFails ==
  /\ pc = "loop"
  /\ i <= Len(md_files)
  /\ md_files[i] \in DOMAIN disk
  /\ stdout' = stdout \o <<<<"Converting", md_files[i]>>, <<"Traceback", "read">>>>
  /\ pc' = "aborted"
  /\ UNCHANGED <<disk, dir_exists, docs_html, writes, i, converted, conv_vars>>

\* a write failure that removes the output written so far
WriteFailsWithCleanup ==
  /\ pc = "loop"
  /\ i <= Len(md_files)
  /\ md_files[i] \in DOMAIN disk
  /\ docs_html' = <<>>
  /\ stdout' = stdout \o <<<<"Converting", md_files[i]>>, <<"Traceback", "write">>>>
  /\ pc' = "aborted"
  /\ UNCHANGED <<disk, dir_exists, writes, i, converted, conv_vars>>

\* an iteration whose open(html_path, 'w') or f.write() raises: the file
\* is absent when open raised, partial when the write did; the run ends
\* with a traceback
WriteFails ==
  /\ pc = "loop"
  /\ i <= Len(md_files)
  /\ md_files[i] \in DOMAIN disk
  /\ LET md_file == md_files[i]
         html_path == with_suffix(md_file, DotHtml)
     IN  \/ docs_html' = docs_html
         \/ \E part \in PartialWrites(FinalHtml(md_file, disk[md_file])) :
              docs_html' = Put(docs_html, html_path, part)
  /\ stdout' = stdout \o <<<<"Converting", md_files[i]>>, <<"Traceback", "write">>>>
  /\ pc' = "aborted"
  /\ UNCHANGED <<disk, dir_exists, writes, i, converted, conv_vars>>

\* after the loop: writing index.html raises
IndexWriteFails ==
  /\ pc = "loop"
  /\ i > Len(md_files)
  /\ \/ docs_html' = docs_html
     \/ \E part \in PartialWrites(IndexPage) :
          docs_html' = Put(docs_html, IndexHtml, part)
  /\ stdout' = stdout \o <<<<"Creating", IndexHtml>>, <<"Traceback", "write">>>>
  /\ pc' = "aborted"
  /\ UNCHANGED <<disk, dir_exists, writes, i, converted, conv_vars>>

Next ==
  \/ MakeOutputDir
  \/ SkipMissing
  \/ ConvertFile
  \/ CreateIndex
  \/ ReadFails
  \/ WriteFails
  \/ IndexWriteFails

Spec == Init /\ [][Next]_vars

(***************************************************************************)
(* convert_markdown_to_html on bounded inputs, and on its own output.      *)
(***************************************************************************)
OrchIdle ==
  /\ disk = <<>>
  /\ dir_exists = FALSE
  /\ docs_html = <<>>
  /\ writes = <<>>
  /\ stdout = <<>>
  /\ pc = "idle"
  /\ i = 0
  /\ converted = 0

ConvInit ==
  /\ OrchIdle
  /\ markdown_text \in Documents \cup LinkInputs
  /\ html = <<>>
  /\ html2 = <<>>
  /\ conv_pc = "call"

\* html = convert_markdown_to_html(markdown_text)
Convert ==
  /\ conv_pc = "call"
  /\ html' = convert_markdown_to_html(markdown_text)
  /\ conv_pc' = "returned"
  /\ UNCHANGED <<markdown_text, html2, orch_vars>>

\* html2 = convert_markdown_to_html(html)
ConvertAgain ==
  /\ conv_pc = "returned"
  /\ html2' = convert_markdown_to_html(html)
  /\ conv_pc' = "returned2"
  /\ UNCHANGED <<markdown_text, html, orch_vars>>

ConvNext == Convert \/ ConvertAgain

ConvSpec == ConvInit /\ [][ConvNext]_vars

(***************************************************************************)
(* Properties of generate_html_docs (specification Spec).                  *)
(***************************************************************************)

\* the elements of a sequence
Range(seq) == {seq[k] : k \in 1..Len(seq)}

\* the number of places where pat occurs in s
Occurrences(s, pat) ==
  Cardinality({j \in 1..(Len(s) - Len(pat) + 1) : MatchAt(s, pat, j)})

\* X.html for a configured name X.md
HtmlNameOf(md_file) == SubSeq(md_file, 1, Len(md_file) - 3) \o DotHtml

\* the outputs a completed run is to have written
ExpectedOutputs == {HtmlNameOf(f) : f \in DOMAIN disk} \cup {IndexHtml}

\* C1: when the run completes, the files written into docs_html are exactly
\* X.html for every configured X.md that exists, plus index.html; each was
\* written once, nothing was written for a missing file, and index.html
\* was written last.
C1_OutputsMatchInputs ==
  pc = "done" =>
    /\ Range(writes) = ExpectedOutputs
    /\ DOMAIN docs_html = ExpectedOutputs
    /\ Len(writes) = Cardinality(ExpectedOutputs)
    /\ writes[Len(writes)] = IndexHtml
    /\ \A f \in MdFileSet \ DOMAIN disk : HtmlNameOf(f) \notin Range(writes)

\* a completed run over a disk that holds some configured files and lacks
\* others
C1_Witness ==
  /\ pc = "done"
  /\ DOMAIN disk # {}
  /\ DOMAIN disk # MdFileSet
  /\ Len(writes) = Cardinality(DOMAIN disk) + 1

\* C2: a missing configured file gets a skip warning, the run goes on to
\* the remaining files and the index page, and the reported total is the
\* number of configured files that exist plus one.
C2_MissingFilesSkipped ==
  /\ \A f \in MdFileSet :
       <<"Skipping", f>> \in Range(stdout) =>
         /\ f \notin DOMAIN disk
         /\ HtmlNameOf(f) \notin Range(writes)
  /\ pc = "done" =>
       /\ \A f \in MdFileSet \ DOMAIN disk : <<"Skipping", f>> \in Range(stdout)
       /\ \A f \in DOMAIN disk : HtmlNameOf(f) \in Range(writes)
       /\ IndexHtml \in Range(writes)
       /\ stdout[Len(stdout)] = <<"Generated", Cardinality(DOMAIN disk) + 1>>

\* a completed run in which all eight configured files were missing
C2_Witness ==
  /\ pc = "done"
  /\ DOMAIN disk = {}
  /\ Cardinality({k \in 1..Len(stdout) : stdout[k][1] = "Skipping"}) = 8
  /\ stdout[Len(stdout)] = <<"Generated", 1>>

\* .md" and .html"
MdQuote == <<".", "m", "d", "\"">>

\* the markdown link [label](target.md) and the anchor on target.html
MdLink(label, target) ==
  <<"[", label, "]", "(", target, ".", "m", "d", ")">>

HtmlAnchor(label, target) ==
  <<"<", "a", " ", "h", "r", "e", "f", "=", "\"", target, ".", "h", "t",
    "m", "l", "\"", ">", label, "<", "/", "a", ">">>

\* the name of the page written by the step that led to this state
JustWritten == writes[Len(writes)]

\* the step that led to this state wrote a page (a step that ends the run
\* with a traceback completes no page)
PageJustWritten == writes # <<>> /\ pc # "aborted"

\* C4: whenever a page has just been written, it holds no link target
\* ending in .md", and a markdown link [label](Foo.md) of its input appears
\* in it as an anchor on Foo.html.
C4_MdLinksBecomeHtml ==
  PageJustWritten =>
    /\ ~Contains(docs_html[JustWritten], MdQuote)
    /\ \A f \in DOMAIN disk :
         HtmlNameOf(f) = JustWritten =>
           \A label \in {"a", "b"}, target \in {"F", "G"} :
             Contains(disk[f], MdLink(label, target)) =>
               Contains(docs_html[JustWritten], HtmlAnchor(label, target))

\* a page has just been written from a file that links to F.md
C4_Witness ==
  /\ PageJustWritten
  /\ \E f \in DOMAIN disk :
       /\ Contains(disk[f], MdLink("a", "F"))
       /\ HtmlNameOf(f) = JustWritten
       /\ Contains(docs_html[JustWritten], HtmlAnchor("a", "F"))

\* class="active" and class=""
ClassActive ==
  <<"c", "l", "a", "s", "s", "=", "\"", "a", "c", "t", "i", "v", "e", "\"">>

ClassEmpty == <<"c", "l", "a", "s", "s", "=", "\"", "\"">>

\* href="name" class="active"
ActiveLinkTo(name) ==
  <<"h", "r", "e", "f", "=", "\"">> \o name \o <<"\"", " ">> \o ClassActive

\* C10: whenever a page has just been written, exactly one of its nine
\* sidebar entries is marked active and the other eight are empty; the
\* active entry is the link to the page itself (for index.html, the index
\* entry).
C10_OneActiveEntry ==
  PageJustWritten =>
    /\ Occurrences(docs_html[JustWritten], ClassActive) = 1
    /\ Occurrences(docs_html[JustWritten], ClassEmpty) = 8
    /\ Contains(docs_html[JustWritten], ActiveLinkTo(JustWritten))

\* the page of TIER2_COMPLETENESS_REPORT.md has just been written, after
\* the page of TIER1_COMPLETENESS_REPORT.md
C10_Witness ==
  /\ PageJustWritten
  /\ Len(writes) >= 2
  /\ JustWritten = TIER2_COMPLETENESS_REPORT \o DotHtml
  /\ writes[Len(writes) - 1] = TIER1_COMPLETENESS_REPORT \o DotHtml
  /\ Contains(docs_html[JustWritten], ActiveLinkTo(JustWritten))

(***************************************************************************)
(* Properties of convert_markdown_to_html (specification ConvSpec).        *)
(***************************************************************************)

\* the call has returned
Returned == conv_pc \in {"returned", "returned2"}

\* with or without a newline after the last line
Tails == {<<>>, <<NL>>}

\* C3: for a level-1 heading, a blank line and a text line with a bold
\* span, the output holds <h1>T</h1> and the text line wrapped in <p>...</p>
\* with the span as <strong>.
C3_HeadingThenParagraph ==
  \A tail \in Tails :
    /\ Returned
    /\ markdown_text =
         <<"#", " ", "T", NL, NL, "H", " ", "*", "*", "w", "*", "*", ".">> \o tail
    => /\ Contains(html, Wrap(H("1"), <<"T">>))
       /\ Contains(html, Wrap(P, <<"H", " ">> \o Wrap(STRONG, <<"w">>) \o <<".">>))

\* the lines that open a fenced code block
FenceLines == {Fence, Fence \o <<"p", "y">>}

\* C5: the content line of a fenced code block appears unchanged between
\* <pre><code> and </code></pre>, whatever the line is.
C5_CodeBlockVerbatim ==
  \A opening \in FenceLines, content \in LineKinds \ FenceLines, tail \in Tails :
    /\ Returned
    /\ markdown_text = Join(<<opening, content, Fence>>, NL) \o tail
    => Contains(html, Open(PRE) \o Open(CODE) \o content \o <<NL>>
                        \o Close(CODE) \o Close(PRE))

\* the characters markdown gives a meaning to
MarkdownSpecial == {"#", "*", BT, "[", "]", "(", ")", "-", "|"}

\* C6: converting an output that holds no markdown-special character
\* returns it unchanged.
C6_Idempotent ==
  /\ conv_pc = "returned2"
  /\ \A k \in 1..Len(html) : html[k] \notin MarkdownSpecial
  => html2 = html

\* the texts of the list items
ItemTexts == {<<"a">>, <<"b">>, <<"c">>}

\* the lines '- x'
ItemLines == {<<"-", " ">> \o x : x \in ItemTexts}

\* C7: n >= 1 lines '- x' become one <ul>...</ul> around <li>x</li> for
\* each line, in order, one per line, with nothing else in the output.
C7_OneListContainer ==
  Returned =>
    \A tail \in Tails :
      LET body == SubSeq(markdown_text, 1, Len(markdown_text) - Len(tail))
          items == Lines(body)
      IN  /\ markdown_text = body \o tail
          /\ \A k \in 1..Len(items) : items[k] \in ItemLines
          => html = Open(UL)
                      \o Join([k \in 1..Len(items) |-> Wrap(LI, From(items[k], 3))], NL)
                      \o Close(UL) \o tail

\* the three lines - a, - b, - c have been converted
C7_Witness ==
  /\ conv_pc = "returned"
  /\ markdown_text = <<"-", " ", "a", NL, "-", " ", "b", NL, "-", " ", "c">>
  /\ Occurrences(html, Open(UL)) = 1
  /\ Occurrences(html, Open(LI)) = 3

\* a table row and a separator row of two columns
TableRowLine == <<"|", " ", "c", " ", "|", "d", "|">>

SeparatorLine == <<"|", "-", "|", "-", "|">>

\* C8: a header row, a separator row and a data row become one <table>
\* with a row of <th> cells and a row of <td> cells, the cells trimmed,
\* also when the data row ends the input without a newline.
C8_TableConverted ==
  \A tail \in Tails :
    /\ Returned
    /\ markdown_text = Join(<<TableRowLine, SeparatorLine, TableRowLine>>, NL) \o tail
    => Contains(html,
         Open(TABLE) \o <<NL>>
           \o Wrap(TR, Wrap(TH, <<"c">>) \o Wrap(TH, <<"d">>)) \o <<NL>>
           \o Wrap(TR, Wrap(TD, <<"c">>) \o Wrap(TD, <<"d">>)) \o <<NL>>
           \o Close(TABLE))

\* the passes that run before the link pass
BeforeLinks(markdown) == Italic(Bold(InlineCode(CodeBlocks(Headers(markdown)))))

\* C9 as stated: for every non-empty text and url, [text](url) becomes
\* <a href="url">text</a>, and the passes before the link pass leave it
\* unchanged.
C9_EveryLink ==
  Returned =>
    \A text \in LinkParts, url \in LinkParts :
      markdown_text = Link(text, url) =>
        /\ Contains(html, Anchor(url, text))
        /\ BeforeLinks(markdown_text) = markdown_text

\* the link characters no pass of the converter reacts to
PlainLinkChars == LinkChars \ ({"*", "]", BT} \cup EmojiChars)

PlainLinkParts == UNION {[1..n -> PlainLinkChars] : n \in 1..MaxLinkLen}

\* C9, amended: for non-empty text and url free of asterisks, backticks,
\* closing brackets, closing parentheses, newlines and emoji, the input
\* [text](url) becomes exactly <a href="url">text</a>, and the passes
\* before the link pass leave it unchanged.
C9_PlainLink ==
  Returned =>
    \A text \in PlainLinkParts, url \in PlainLinkParts :
      markdown_text = Link(text, url) =>
        /\ html = Anchor(url, text)
        /\ BeforeLinks(markdown_text) = markdown_text

\* the link [a.](.a) has been converted
C9_Witness ==
  /\ conv_pc = "returned"
  /\ markdown_text = Link(<<"a", ".">>, <<".", "a">>)
  /\ Contains(html, <<"h", "r", "e", "f", "=", "\"", ".", "a", "\"", ">", "a", ".", "<">>)

\* the text the paragraph pass receives
BeforeParagraphs(markdown) ==
  Tables(NumberedLists(Lists(HorizontalRules(Links(BeforeLinks(markdown))))))

\* the line, without surrounding whitespace, starts with a block-opening tag
OpensBlock(line) ==
  \E tag \in {<<"<", "h">>, Open(PRE), Open(UL), Open(OL), Open(TABLE),
              Open(HR), Open(LI)} : StartsWith(Strip(line), tag)

\* the line starts with a block-closing tag and with no block-opening tag
ClosesBlock(line) ==
  /\ ~OpensBlock(line)
  /\ \E tag \in {Close(PRE), Close(UL), Close(OL), Close(TABLE)} :
       StartsWith(Strip(line), tag)

\* the inside-block flag when line k is reached: the last line before k
\* that opens or closes a block opens one
FlagAt(lines, k) ==
  LET marks == {j \in 1..(k - 1) : OpensBlock(lines[j]) \/ ClosesBlock(lines[j])}
  IN  marks # {} /\ OpensBlock(lines[Max(marks)])

\* the line is to be wrapped in <p>...</p>
IsParagraph(lines, k) ==
  /\ Strip(lines[k]) # <<>>
  /\ Strip(lines[k])[1] # "<"
  /\ ~FlagAt(lines, k)

\* C11: the paragraph pass keeps the number and order of the lines; it
\* wraps a line in <p>...</p> exactly when the line is non-empty, does not
\* start with '<' and the inside-block flag is false when the line is
\* reached; every other line is emitted unchanged.
C11_ParagraphPass ==
  conv_pc = "returned" =>
    LET lines == Lines(BeforeParagraphs(markdown_text))
    IN  html = Emojis(Unlines([k \in 1..Len(lines) |->
                 IF IsParagraph(lines, k)
                 THEN <<"<", "p", ">">> \o lines[k] \o <<"<", "/", "p", ">">>
                 ELSE lines[k]]))

\* a heading sets the flag, </ul> clears it, and the text line after it is
\* wrapped
C11_Witness ==
  /\ conv_pc = "returned"
  /\ markdown_text = <<"#", " ", "T", NL>> \o Close(UL)
                       \o <<NL, "H", " ", "*", "*", "w", "*", "*", ".">>
  /\ html = Wrap(H("1"), <<"T">>) \o <<NL>> \o Close(UL) \o <<NL>>
              \o Wrap(P, <<"H", " ">> \o Wrap(STRONG, <<"w">>) \o <<".">>)

(***************************************************************************)
(* Failure of a read or a write (specification Spec).                      *)
(***************************************************************************)

\* the outputs of the configured files before position k that exist
OutputsBefore(k) ==
  {HtmlNameOf(md_files[j]) : j \in {j \in 1..(k - 1) : md_files[j] \in DOMAIN disk}}

\* no success summary has been printed
NoSummary == \A k \in 1..Len(stdout) : stdout[k][1] # "Generated"

\* C12 as stated: when the run has ended on a failure at the k-th
\* configured file, docs_html holds the outputs of the files before the
\* k-th and nothing else (no output for the k-th or a later file, no
\* index.html), and no summary has been printed.
C12_NoOutputForFailedFile ==
  (pc = "aborted" /\ i <= Len(md_files)) =>
    /\ DOMAIN docs_html = OutputsBefore(i)
    /\ NoSummary

\* part is a proper prefix of text
IsTruncated(part, text) ==
  Len(part) < Len(text) /\ part = SubSeq(text, 1, Len(part))

\* C12, amended: a step that fails at the k-th configured file ends the
\* run for good; it leaves every output written before unchanged, writes
\* nothing for a later file and no index.html, prints no summary, and
\* leaves for the k-th file either no output or a truncated one.
C12_AbortKeepsEarlierOutputs ==
  [][/\ pc # "aborted"
     /\ (pc' = "aborted" /\ i <= Len(md_files)) =>
          LET kth == HtmlNameOf(md_files[i])
          IN  /\ DOMAIN docs_html = OutputsBefore(i)
              /\ \A n \in DOMAIN docs_html :
                   n \in DOMAIN docs_html' /\ docs_html'[n] = docs_html[n]
              /\ DOMAIN docs_html' \subseteq DOMAIN docs_html \cup {kth}
              /\ kth \in DOMAIN docs_html' =>
                   IsTruncated(docs_html'[kth], FinalHtml(md_files[i], disk[md_files[i]]))
              /\ writes' = writes
              /\ i' = i
              /\ \A k \in 1..Len(stdout') : stdout'[k][1] # "Generated"]_vars

\* the run has ended on a write failure at a configured file after it had
\* written an earlier page, and the failed file's output is there, cut
\* short
C12_Witness ==
  /\ pc = "aborted"
  /\ i <= Len(md_files)
  /\ writes # <<>>
  /\ writes[1] \in DOMAIN docs_html
  /\ HtmlNameOf(md_files[i]) \in DOMAIN docs_html
  /\ Len(docs_html[HtmlNameOf(md_files[i])]) < Len(docs_html[writes[1]])
  /\ NoSummary

====
